---- MODULE Spec2Model ----
(***************************************************************************)
(* A model of the two crawl schedulers of crawlie:                         *)
(*   app.py  - main(): one thread driving a pycurl CurlMulti stack;        *)
(*   test.py - crawl_and_update(): a ThreadPoolExecutor running crawl_url. *)
(* A behaviour is one run of one of the two programs (variable prog).      *)
(* start.py, which writes the seed file, has a specification of its own.   *)
(***************************************************************************)
EXTENDS Bags, FiniteSets, Integers, Sequences, TLC

\* ------------------------------------------------------------------ bounds
MaxConn == 2        \* settings['connections'] ranges over 1..MaxConn
MaxDepth == 2       \* settings['depth'] ranges up to MaxDepth
MaxThreads == 2     \* settings['threads'] ranges over 1..MaxThreads
MaxDelay == 2       \* the Crawl-delay robots.txt of host h1 declares
MaxLines == 2       \* a seed file with blank and comment lines has up to MaxLines lines

\* --------------------------------------------------------- program constants
DefaultDelay == 1   \* time.sleep(1) of respect_robots_txt

\* ------------------------------------------------------------ environment
URLs == {"a", "b", "c"}
Hosts == {"h1", "h2"}

\* urlparse(url).netloc
Host(u) == IF u = "c" THEN "h2" ELSE "h1"

\* The anchors of each page in document order: what search_links returns.
Graphs ==
    { [u \in URLs |-> CASE u = "a" -> <<"b", "c">>
                        [] u = "b" -> <<"a">>
                        [] OTHER  -> <<"b">>],
      [u \in URLs |-> CASE u = "a" -> <<"b", "b">>
                        [] u = "b" -> <<"c">>
                        [] OTHER  -> << >>] }

\* Seed files in which every line is a bare URL.
SeedLists == { << >>, <<"a">>, <<"a", "a">>, <<"a", "b">>, <<"a", "c">> }

\* rp.crawl_delay(user_agent): h1 declares a Crawl-delay, h2 declares none.
CrawlDelay(h) == IF h = "h1" THEN MaxDelay ELSE 0

\* The spacing a host asks for: its crawl-delay, or the default.
HostDelay(h) == IF CrawlDelay(h) > 0 THEN CrawlDelay(h) ELSE DefaultDelay

\* Elapsed times saturate here (no delay of the model exceeds it).
Far == MaxDelay + DefaultDelay

VARIABLES
    prog,            \* "app" | "test": the program this run executes
    settings,        \* the settings dict returned by the menu
    seeds,           \* the lines of the seed file
    links,           \* the link graph of the crawled site
    disallowed,      \* URLs robots.txt disallows
    \* ---- app.py main
    pc,              \* position of main
    queue,           \* crawl_state['queue']
    processed_urls,  \* crawl_state['processed_urls']
    num_conn,        \* num_conn
    handles,         \* m.handles: per index [url, depth, st, code]
    active_handles,  \* active_handles
    msgs,            \* the multi stack's completion messages, in arrival order
    state_file,      \* crawl_state.pkl: the pickled state, {} while no file exists
    elapsed,         \* per host: time since its last request started, -1 if none
    \* ---- test.py crawl_and_update
    tpc,             \* position of the scheduling loop
    visited,         \* visited
    urls_to_visit,   \* urls_to_visit
    new_urls_to_visit, \* new_urls_to_visit
    futures,         \* futures: per submitted call [url, depth, st, k]
    nodes,           \* graph_data['nodes'] as (url, depth) pairs
    \* ---- start.py main
    spc,             \* position of start.py's main
    start_in,        \* --url, --percentage, and urls.txt as the run found it
    fetched,         \* what fetch_links did: [status, links]
    urls_txt,        \* the lines of urls.txt
    \* ---- history of the run (read by the properties only)
    min_gap,         \* per host: least gap seen between two consecutive request starts
    add_count,       \* per URL: successful m.add_handle calls
    get_count,       \* per URL: requests.get calls
    dispatched,      \* (url, depth) pairs of tasks attached or submitted
    outcomes,        \* (url, outcome) pairs of the fetch attempts that ended
    refetched,       \* URLs fetched again after a failed fetch
    bad_harvest,     \* URLs whose non-success response had its links enqueued
    robots_reads,    \* per host: rp.read() calls, counted up to 2
    robots_log,      \* the calls of respect_robots_txt whose rp.read() raised
    created,         \* bag of the tasks seeded or appended to new_urls_to_visit
    submitted        \* bag of the tasks submitted to crawl_url

envVars == <<prog, settings, seeds, links, disallowed>>
appVars == <<pc, queue, processed_urls, num_conn, handles, active_handles, msgs,
             state_file, elapsed>>
testVars == <<tpc, visited, urls_to_visit, new_urls_to_visit, futures, nodes>>
robotsHist == <<robots_reads, robots_log>>
appHist == <<min_gap, add_count, bad_harvest, robotsHist>>
testHist == <<get_count, created, submitted>>
hist == <<dispatched, outcomes, refetched>>
startVars == <<spc, start_in, fetched, urls_txt>>
vars == <<envVars, appVars, testVars, startVars, appHist, testHist, hist>>

\* What a step of main, and a step of crawl_and_update, cannot touch.
appRest == <<envVars, testVars, testHist, startVars>>
testRest == <<envVars, appVars, appHist, startVars>>

Min(x, y) == IF x <= y THEN x ELSE y

\* The legal settings of a run: app.py's menu clamps connections and depth to >= 1
\* and has no 'threads' key; test.py takes depth 0 (seeds only) as well.
SettingsOf(p) ==
    { [connections |-> c, depth |-> d, search_links |-> s, threads |-> t] :
        c \in 1..MaxConn,
        d \in (IF p = "app" THEN 1 ELSE 0)..MaxDepth,
        s \in BOOLEAN,
        t \in (IF p = "app" THEN {1} ELSE 1..MaxThreads) }

\* ================================================================ app.py

\* A pycurl.Curl object of m.handles with the attributes main hangs on it.
\* st: "free" (not on the multi stack), "added" (attached, request not started),
\* "running", "done" (finished, message not read yet).
FreeHandle == [url |-> "", depth |-> 0, st |-> "free", code |-> ""]

\* The queue built from the seed file: one depth-0 task per seed.
SeedQueue(s) == [i \in 1..Len(s) |-> <<s[i], 0>>]

\* The body of the response to url: the page itself, or the server's error page
\* (which links back to the start page).
Body(url, code) == IF code = "ok" THEN links[url] ELSE <<"a">>

\* time.sleep(d): every host's time since its last request start grows by d.
Slept(e, d) == [h \in Hosts |-> IF e[h] = -1 THEN -1 ELSE Min(e[h] + d, Far)]

\* A variant that refuses the fetch when the read of robots.txt raises.
RespectRobotsTxtFailClosed(url, readOk) ==
    IF ~readOk THEN [allowed |-> FALSE, slept |-> DefaultDelay]
    ELSE IF url \in disallowed THEN [allowed |-> FALSE, slept |-> 0]
    ELSE [allowed |-> TRUE, slept |-> HostDelay(Host(url))]
\* respect_robots_txt(url, agent) when rp.read() succeeds (readOk) or raises:
\* whether the fetch is allowed, and how long the call slept.
RespectRobotsTxt(url, readOk) ==
    IF ~readOk THEN [allowed |-> TRUE, slept |-> DefaultDelay]
    ELSE IF url \in disallowed THEN [allowed |-> FALSE, slept |-> 0]
    ELSE [allowed |-> TRUE, slept |-> HostDelay(Host(url))]

\* The record of one call of respect_robots_txt for url.
RobotsCall(url, readOk) ==
    [url |-> url, read |-> IF readOk THEN "ok" ELSE "error",
     allowed |-> RespectRobotsTxt(url, readOk).allowed,
     slept |-> RespectRobotsTxt(url, readOk).slept]

\* The log keeps the calls whose read of robots.txt raised.
Logged(log, url, readOk) == IF readOk THEN log ELSE log \cup {RobotsCall(url, readOk)}

\* One more rp.read() for host h; the count stops at 2 ("more than once").
Counted(reads, h) == [reads EXCEPT ![h] = Min(@ + 1, 2)]

\* The URLs with a fetch attempt that failed.
Failed == {o[1] : o \in {x \in outcomes : x[2] \in {"curl_error", "raise"}}}

\* num_conn = min(settings['connections'], len(crawl_state["queue"]))
NumConnUncapped(connections, q) == Len(q)
NumConn(connections, q) == Min(connections, Len(q))

AppInit ==
    /\ queue = SeedQueue(seeds)
    /\ processed_urls = {}
    /\ num_conn = NumConn(settings.connections, SeedQueue(seeds))
    /\ handles = [i \in 0..(num_conn - 1) |-> FreeHandle]
    /\ active_handles = 0
    /\ msgs = << >>
    /\ state_file = {}
    /\ elapsed = [h \in Hosts |-> -1]
    /\ pc = "loop"

\* The state of main's variables in a run of the other program.
AppOff ==
    /\ queue = << >>
    /\ processed_urls = {}
    /\ num_conn = 0
    /\ handles = << >>
    /\ active_handles = 0
    /\ msgs = << >>
    /\ state_file = {}
    /\ elapsed = [h \in Hosts |-> -1]
    /\ pc = "off"

\* while crawl_state["queue"]:
LoopTest ==
    /\ UNCHANGED appRest
    /\ prog = "app" /\ pc = "loop"
    /\ pc' = IF queue # << >> THEN "dispatch" ELSE "save"
    /\ UNCHANGED <<queue, processed_urls, num_conn, handles, active_handles, msgs,
                   state_file, elapsed, appHist, hist>>

\* while active_handles < num_conn and crawl_state["queue"]:
InnerGuard == active_handles < num_conn /\ queue # << >>

\* One pass of the inner loop that ends in `continue` at the processed_urls test.
DispatchProcessed ==
    /\ UNCHANGED appRest
    /\ prog = "app" /\ pc = "dispatch" /\ InnerGuard
    /\ Head(queue)[1] \in processed_urls
    /\ queue' = Tail(queue)
    /\ UNCHANGED <<pc, processed_urls, num_conn, handles, active_handles, msgs,
                   state_file, elapsed, appHist, hist>>

\* One pass that ends in `continue` because robots.txt disallows the URL.
DispatchDisallowed ==
    /\ UNCHANGED appRest
    /\ prog = "app" /\ pc = "dispatch" /\ InnerGuard
    /\ Head(queue)[1] \notin processed_urls
    /\ \E readOk \in BOOLEAN :
         LET r == RespectRobotsTxt(Head(queue)[1], readOk) IN
         /\ ~r.allowed
         /\ elapsed' = Slept(elapsed, r.slept)
         /\ robots_log' = Logged(robots_log, Head(queue)[1], readOk)
    /\ robots_reads' = Counted(robots_reads, Host(Head(queue)[1]))
    /\ queue' = Tail(queue)
    /\ UNCHANGED <<pc, processed_urls, num_conn, handles, active_handles, msgs,
                   state_file, min_gap, add_count, bad_harvest, hist>>

\* One pass that ends in `continue` because the output file cannot be opened.
DispatchOpenFails ==
    /\ UNCHANGED appRest
    /\ prog = "app" /\ pc = "dispatch" /\ InnerGuard
    /\ Head(queue)[1] \notin processed_urls
    /\ \E readOk \in BOOLEAN :
         LET r == RespectRobotsTxt(Head(queue)[1], readOk) IN
         /\ r.allowed
         /\ elapsed' = Slept(elapsed, r.slept)
         /\ robots_log' = Logged(robots_log, Head(queue)[1], readOk)
    /\ robots_reads' = Counted(robots_reads, Host(Head(queue)[1]))
    /\ queue' = Tail(queue)
    /\ outcomes' = outcomes \cup {<<Head(queue)[1], "open_error">>}
    /\ UNCHANGED <<pc, processed_urls, num_conn, handles, active_handles, msgs,
                   state_file, min_gap, add_count, bad_harvest, dispatched, refetched>>

\* One pass that reaches m.add_handle(c) with c = m.handles[active_handles].
\* pycurl raises "curl object already on this multi-stack" when c is still
\* attached; nothing catches it, and main ends there.
DispatchAdd ==
    /\ UNCHANGED appRest
    /\ prog = "app" /\ pc = "dispatch" /\ InnerGuard
    /\ Head(queue)[1] \notin processed_urls
    /\ LET url == Head(queue)[1]
           depth == Head(queue)[2]
           c == handles[active_handles]
       IN
       /\ \E readOk \in BOOLEAN :
            LET r == RespectRobotsTxt(url, readOk) IN
            /\ r.allowed
            /\ elapsed' = Slept(elapsed, r.slept)
            /\ robots_log' = Logged(robots_log, url, readOk)
       /\ robots_reads' = Counted(robots_reads, Host(url))
       /\ queue' = Tail(queue)
       /\ IF c.st = "free"
          THEN /\ handles' = [handles EXCEPT ![active_handles] =
                     [url |-> url, depth |-> depth, st |-> "added", code |-> ""]]
               /\ active_handles' = active_handles + 1
               /\ add_count' = [add_count EXCEPT ![url] = @ + 1]
               /\ dispatched' = dispatched \cup {<<url, depth>>}
               /\ refetched' = IF url \in Failed THEN refetched \cup {url} ELSE refetched
               /\ pc' = pc
          ELSE /\ handles' = [handles EXCEPT ![active_handles].url = url,
                                             ![active_handles].depth = depth]
               /\ pc' = "crashed"
               /\ UNCHANGED <<active_handles, add_count, dispatched, refetched>>
    /\ UNCHANGED <<processed_urls, num_conn, msgs, state_file, min_gap, bad_harvest,
                   outcomes>>

\* The inner loop ends: no free slot, or the queue is empty.
DispatchEnd ==
    /\ UNCHANGED appRest
    /\ prog = "app" /\ pc = "dispatch" /\ ~InnerGuard
    /\ pc' = "perform"
    /\ UNCHANGED <<queue, processed_urls, num_conn, handles, active_handles, msgs,
                   state_file, elapsed, appHist, hist>>

\* The handles m.perform() starts now, per host.
Starting(h) == {i \in DOMAIN handles : handles[i].st = "added" /\ Host(handles[i].url) = h}

\* The gap between this request start at host h and the one before it.
StartGap(h) ==
    IF Cardinality(Starting(h)) >= 2 THEN 0
    ELSE IF elapsed[h] = -1 THEN Far ELSE elapsed[h]

\* m.perform(): the requests of the handles added since the last call start.
Perform ==
    /\ UNCHANGED appRest
    /\ prog = "app" /\ pc = "perform"
    /\ handles' = [i \in DOMAIN handles |->
                     IF handles[i].st = "added"
                     THEN [handles[i] EXCEPT !.st = "running"] ELSE handles[i]]
    /\ min_gap' = [h \in Hosts |->
                     IF Starting(h) = {} THEN min_gap[h] ELSE Min(min_gap[h], StartGap(h))]
    /\ elapsed' = [h \in Hosts |-> IF Starting(h) = {} THEN elapsed[h] ELSE 0]
    /\ pc' = "transfer"
    /\ UNCHANGED <<queue, processed_urls, num_conn, active_handles, msgs,
                   state_file, add_count, bad_harvest, robotsHist, hist>>

\* The outcomes of a transfer: a response with a success status, a response with
\* an error status (no FAILONERROR is set, so libcurl reports it done all the
\* same), or a libcurl error (connection failure, timeout).
Outcomes == {"ok", "http_error", "curl_error"}

\* A running transfer finishes while m.perform() drives the stack.
Complete(i) ==
    /\ UNCHANGED appRest
    /\ prog = "app" /\ pc = "transfer"
    /\ handles[i].st = "running"
    /\ \E code \in Outcomes :
         /\ handles' = [handles EXCEPT ![i].st = "done", ![i].code = code]
         /\ outcomes' = outcomes \cup {<<handles[i].url, code>>}
    /\ msgs' = Append(msgs, i)
    /\ UNCHANGED <<pc, queue, processed_urls, num_conn, active_handles,
                   state_file, elapsed, appHist, dispatched, refetched>>

\* m.perform() returns (ret != E_CALL_MULTI_PERFORM) without waiting for the
\* transfers still running.
PerformReturn ==
    /\ UNCHANGED appRest
    /\ prog = "app" /\ pc = "transfer"
    /\ pc' = "info_read"
    /\ UNCHANGED <<queue, processed_urls, num_conn, handles, active_handles, msgs,
                   state_file, elapsed, appHist, hist>>

\* ok_list and err_list of m.info_read()
OkList == SelectSeq(msgs, LAMBDA i : handles[i].code # "curl_error")
ErrList == SelectSeq(msgs, LAMBDA i : handles[i].code = "curl_error")

\* Whether main extracts the links of the finished handle c.
HarvestsAtLimit(c) == settings.search_links /\ c.depth <= settings.depth
Harvests(c) == settings.search_links /\ c.depth < settings.depth

\* The tasks the `for c in ok_list` loop appends for handle c.
Harvest(c) ==
    IF Harvests(c)
    THEN LET ls == Body(c.url, c.code) IN [k \in 1..Len(ls) |-> <<ls[k], c.depth + 1>>]
    ELSE << >>

RECURSIVE HarvestAll(_)
HarvestAll(ok) ==
    IF ok = << >> THEN << >> ELSE Harvest(handles[Head(ok)]) \o HarvestAll(Tail(ok))

Range(f) == {f[x] : x \in DOMAIN f}

\* The URLs `for c in ok_list` adds to processed_urls.
Processed(ok) == {handles[i].url : i \in Range(ok)}

\* m.info_read() and the two loops over its lists.
InfoRead ==
    /\ UNCHANGED appRest
    /\ prog = "app" /\ pc = "info_read"
    /\ queue' = queue \o HarvestAll(OkList)
    /\ processed_urls' = processed_urls \cup Processed(OkList)
    /\ handles' = [i \in DOMAIN handles |->
                     IF i \in Range(OkList) \cup Range(ErrList)
                     THEN [handles[i] EXCEPT !.st = "free"]
                     ELSE handles[i]]
    /\ active_handles' = active_handles - Len(OkList) - Len(ErrList)
    /\ bad_harvest' = bad_harvest \cup
          {handles[i].url : i \in {j \in Range(OkList) :
              handles[j].code = "http_error" /\ Harvest(handles[j]) # << >>}}
    /\ msgs' = << >>
    /\ pc' = "loop"
    /\ UNCHANGED <<num_conn, state_file, elapsed, min_gap, add_count, robotsHist, hist>>

\* A variant that goes on to the reports without writing the state file.
SaveSkipped ==
    /\ UNCHANGED appRest
    /\ prog = "app" /\ pc = "save"
    /\ pc' = "report"
    /\ UNCHANGED <<queue, processed_urls, num_conn, handles, active_handles, msgs,
                   state_file, elapsed, appHist, hist>>

\* pickle.dump(crawl_state, f)
Save ==
    /\ UNCHANGED appRest
    /\ prog = "app" /\ pc = "save"
    /\ state_file' = {[processed_urls |-> processed_urls, queue |-> queue]}
    /\ pc' = "report"
    /\ UNCHANGED <<queue, processed_urls, num_conn, handles, active_handles, msgs,
                   elapsed, appHist, hist>>

\* create_heatmap(...); create_network_graph(...)
Report ==
    /\ UNCHANGED appRest
    /\ prog = "app" /\ pc = "report"
    /\ pc' = "done"
    /\ UNCHANGED <<queue, processed_urls, num_conn, handles, active_handles, msgs,
                   state_file, elapsed, appHist, hist>>

AppNext ==
    \/ LoopTest
    \/ DispatchProcessed
    \/ DispatchDisallowed
    \/ DispatchOpenFails
    \/ DispatchAdd
    \/ DispatchEnd
    \/ Perform
    \/ \E i \in DOMAIN handles : Complete(i)
    \/ PerformReturn
    \/ InfoRead
    \/ Save
    \/ Report

\* The user interrupts while the crawl loop runs: KeyboardInterrupt is raised in
\* main, which has no handler for it; the process ends at once, the transfers on
\* the multi stack are dropped and crawl_state.pkl is not written.
Interrupt ==
    /\ UNCHANGED appRest
    /\ prog = "app" /\ pc \in {"loop", "dispatch", "perform", "transfer", "info_read"}
    /\ pc' = "interrupted"
    /\ UNCHANGED <<queue, processed_urls, num_conn, handles, active_handles, msgs,
                   state_file, elapsed, appHist, hist>>

\* The crawl state main starts from: the pickled state when settings['resume']
\* is set and the file exists, an empty state otherwise.
LoadedIgnoresFile(resume, file) == [processed_urls |-> {}, queue |-> << >>]
Loaded(resume, file) ==
    IF resume /\ file # {}
    THEN CHOOSE crawl_state \in file : TRUE
    ELSE [processed_urls |-> {}, queue |-> << >>]

\* A variant that leaves the loaded queue as it is.
SeededNever(q, s) == q

\* `if not crawl_state["queue"]`: an empty queue is filled from the seed file.
Seeded(q, s) == IF q = << >> THEN SeedQueue(s) ELSE q

\* app.py is started again, with settings['resume'] set, after a run that ended:
\* a new process over the same seed file, settings and output directory.
Resume ==
    /\ UNCHANGED appRest
    /\ prog = "app" /\ pc = "done"
    /\ LET crawl_state == Loaded(TRUE, state_file)
           q == Seeded(crawl_state.queue, seeds)
       IN /\ queue' = q
          /\ processed_urls' = crawl_state.processed_urls
          /\ num_conn' = NumConn(settings.connections, q)
          /\ handles' = [i \in 0..(NumConn(settings.connections, q) - 1) |-> FreeHandle]
    /\ active_handles' = 0
    /\ msgs' = << >>
    /\ elapsed' = [h \in Hosts |-> -1]
    /\ pc' = "loop"
    /\ min_gap' = [h \in Hosts |-> Far]
    /\ add_count' = [u \in URLs |-> 0]
    /\ bad_harvest' = {}
    /\ robots_reads' = [h \in Hosts |-> 0]
    /\ robots_log' = {}
    /\ dispatched' = {}
    /\ outcomes' = {}
    /\ refetched' = {}
    /\ UNCHANGED state_file

\* =============================================================== test.py
\* The position a slice bound n stands for in list s: Python counts a negative
\* bound from the end and clips both ways.
SliceAt(s, n) == IF n >= 0 THEN Min(n, Len(s)) ELSE Len(s) - Min(-n, Len(s))

\* urls_to_visit[:settings['connections']]
Batch(s, n) == SubSeq(s, 1, SliceAt(s, n))

\* urls_to_visit[settings['connections']:]
RestOffByOne(s, n) == SubSeq(s, SliceAt(s, n) + 2, Len(s))
Rest(s, n) == SubSeq(s, SliceAt(s, n) + 1, Len(s))

\* The bag of the entries of a list.
BagOfSeq(s) == [t \in Range(s) |-> Cardinality({i \in DOMAIN s : s[i] = t})]

\* A call of crawl_url handed to the executor. st: "queued" (no worker thread has
\* taken it), "get" (requests.get issued), "links" (in `for link in links`, at
\* link k), "add" (before visited.add), "done" (returned).
Call(task) == [url |-> task[1], depth |-> task[2], st |-> "queued", k |-> 0]

TestInit ==
    /\ visited = {}
    /\ urls_to_visit = SeedQueue(seeds)
    /\ new_urls_to_visit = << >>
    /\ futures = << >>
    /\ nodes = << >>
    /\ created = BagOfSeq(SeedQueue(seeds))
    /\ submitted = EmptyBag
    /\ tpc = "loop"

\* The state of crawl_and_update's variables in a run of the other program.
TestOff ==
    /\ visited = {}
    /\ urls_to_visit = << >>
    /\ new_urls_to_visit = << >>
    /\ futures = << >>
    /\ nodes = << >>
    /\ created = EmptyBag
    /\ submitted = EmptyBag
    /\ tpc = "off"

\* One pass of `while urls_to_visit or new_urls_to_visit` up to the wait: the
\* swap when urls_to_visit is empty, and the submit loop over the batch.
Schedule ==
    /\ UNCHANGED testRest
    /\ prog = "test" /\ tpc = "loop"
    /\ urls_to_visit # << >> \/ new_urls_to_visit # << >>
    /\ LET swap == urls_to_visit = << >>
           todo == IF swap THEN new_urls_to_visit ELSE urls_to_visit
           batch == Batch(todo, settings.connections)
       IN
       /\ urls_to_visit' = todo
       /\ new_urls_to_visit' = IF swap THEN << >> ELSE new_urls_to_visit
       /\ futures' = [i \in 1..Len(batch) |-> Call(batch[i])]
       /\ submitted' = submitted (+) BagOfSeq(batch)
       /\ dispatched' = dispatched \cup Range(batch)
    /\ tpc' = "wait"
    /\ UNCHANGED <<visited, nodes, get_count, created, outcomes, refetched>>

\* The loop ends: crawl_and_update returns visited and graph_data.
Return ==
    /\ UNCHANGED testRest
    /\ prog = "test" /\ tpc = "loop"
    /\ urls_to_visit = << >> /\ new_urls_to_visit = << >>
    /\ tpc' = "done"
    /\ UNCHANGED <<visited, urls_to_visit, new_urls_to_visit, futures, nodes,
                   testHist, hist>>

\* ThreadPoolExecutor(max_workers=settings['threads']): the worker threads.
PoolSizeOneShort(threads) == threads - 1
PoolSize(threads) == threads

\* The calls a worker thread is executing.
Running == {i \in DOMAIN futures : futures[i].st \notin {"queued", "done"}}

\* A worker thread of the pool takes the oldest queued call and runs crawl_url up
\* to requests.get: the `if url in visited: return` test, then the request.
Start(i) ==
    /\ UNCHANGED testRest
    /\ prog = "test" /\ tpc = "wait"
    /\ futures[i].st = "queued"
    /\ \A j \in 1..(i - 1) : futures[j].st # "queued"
    /\ Cardinality(Running) < PoolSize(settings.threads)
    /\ LET url == futures[i].url IN
       IF url \in visited
       THEN /\ futures' = [futures EXCEPT ![i].st = "done"]
            /\ UNCHANGED <<get_count, refetched>>
       ELSE /\ futures' = [futures EXCEPT ![i].st = "get"]
            /\ get_count' = [get_count EXCEPT ![url] = @ + 1]
            /\ refetched' = IF url \in Failed THEN refetched \cup {url} ELSE refetched
    /\ UNCHANGED <<tpc, visited, urls_to_visit, new_urls_to_visit, nodes,
                   created, submitted, dispatched, outcomes>>

\* A variant that extracts links whatever settings['search_links'] says.
SearchesAlways(w) == w.depth < settings.depth

\* Whether crawl_url calls search_links for this call.
Searches(w) == settings.search_links /\ w.depth < settings.depth

\* requests.get raises, or raise_for_status does: the except clause logs it and
\* the call returns.
Raise(i) ==
    /\ UNCHANGED testRest
    /\ prog = "test" /\ tpc = "wait"
    /\ futures[i].st = "get"
    /\ futures' = [futures EXCEPT ![i].st = "done"]
    /\ outcomes' = outcomes \cup {<<futures[i].url, "raise">>}
    /\ UNCHANGED <<tpc, visited, urls_to_visit, new_urls_to_visit, nodes,
                   testHist, dispatched, refetched>>

\* The response arrives with a success status: the node is appended, and
\* search_links (when called) returns the links or raises on the content.
Respond(i) ==
    /\ UNCHANGED testRest
    /\ prog = "test" /\ tpc = "wait"
    /\ futures[i].st = "get"
    /\ LET w == futures[i] IN
       /\ nodes' = Append(nodes, <<w.url, w.depth>>)
       /\ \/ /\ futures' = [futures EXCEPT ![i].st =
                              IF Searches(w) /\ links[w.url] # << >> THEN "links" ELSE "add",
                                           ![i].k =
                              IF Searches(w) /\ links[w.url] # << >> THEN 1 ELSE 0]
             /\ outcomes' = outcomes \cup {<<w.url, "ok">>}
          \/ /\ Searches(w)
             /\ futures' = [futures EXCEPT ![i].st = "done"]
             /\ outcomes' = outcomes \cup {<<w.url, "bad_html">>}
    /\ UNCHANGED <<tpc, visited, urls_to_visit, new_urls_to_visit,
                   testHist, dispatched, refetched>>

\* One pass of `for link in links`: the link is appended to new_urls_to_visit
\* unless it is in visited.
LinkStep(i) ==
    /\ UNCHANGED testRest
    /\ prog = "test" /\ tpc = "wait"
    /\ futures[i].st = "links"
    /\ LET w == futures[i]
           link == links[w.url][w.k]
       IN
       /\ IF link \notin visited
          THEN /\ new_urls_to_visit' = Append(new_urls_to_visit, <<link, w.depth + 1>>)
               /\ created' = created (+) SetToBag({<<link, w.depth + 1>>})
          ELSE UNCHANGED <<new_urls_to_visit, created>>
       /\ futures' = IF w.k < Len(links[w.url])
                     THEN [futures EXCEPT ![i].k = w.k + 1]
                     ELSE [futures EXCEPT ![i].st = "add", ![i].k = 0]
    /\ UNCHANGED <<tpc, visited, urls_to_visit, nodes, get_count, submitted, hist>>

\* visited.add(url), and the call returns.
AddVisited(i) ==
    /\ UNCHANGED testRest
    /\ prog = "test" /\ tpc = "wait"
    /\ futures[i].st = "add"
    /\ visited' = visited \cup {futures[i].url}
    /\ futures' = [futures EXCEPT ![i].st = "done"]
    /\ UNCHANGED <<tpc, urls_to_visit, new_urls_to_visit, nodes, testHist, hist>>

\* concurrent.futures.wait(futures) returns; the batch is sliced off.
Wait ==
    /\ UNCHANGED testRest
    /\ prog = "test" /\ tpc = "wait"
    /\ \A i \in DOMAIN futures : futures[i].st = "done"
    /\ urls_to_visit' = Rest(urls_to_visit, settings.connections)
    /\ tpc' = "loop"
    /\ UNCHANGED <<visited, new_urls_to_visit, futures, nodes, testHist, hist>>

TestNext ==
    \/ Schedule
    \/ Return
    \/ \E i \in DOMAIN futures : Start(i)
    \/ \E i \in DOMAIN futures : Raise(i)
    \/ \E i \in DOMAIN futures : Respond(i)
    \/ \E i \in DOMAIN futures : LinkStep(i)
    \/ \E i \in DOMAIN futures : AddVisited(i)
    \/ Wait

\* ============================================================== start.py
\* The state of start.py's variables in a run of another program.
StartOff ==
    /\ spc = "off"
    /\ start_in = [url |-> "", percentage |-> 0, file |-> << >>]
    /\ fetched = [status |-> "none", links |-> << >>]
    /\ urls_txt = << >>

\* max(0, min(100, args.percentage))
Clamp(p) == IF p < 0 THEN 0 ELSE Min(100, p)

\* urlparse(full_link).netloc == urlparse(url).netloc
SameHost(link, url) == Host(link) = Host(url)

\* The `for link in soup.find_all('a', href=True)` loop of fetch_links.
RECURSIVE AllLinks(_, _)
AllLinks(anchors, url) ==
    IF anchors = << >> THEN << >>
    ELSE (IF SameHost(Head(anchors), url) THEN <<Head(anchors)>> ELSE << >>)
            \o AllLinks(Tail(anchors), url)

\* all_links[:int(len(all_links) * (percentage / 100))]
Portion(all_links, percentage) ==
    SubSeq(all_links, 1, (Len(all_links) * percentage) \div 100)

\* A variant that opens urls.txt for appending.
WrittenAppended(file, lines) == file \o lines

\* open(url_file, 'w') and one f.write per link: the old lines are gone.
Written(file, lines) == lines

\* What a step of start.py's main cannot touch.
startRest == <<envVars, appVars, testVars, appHist, testHist, hist, start_in>>

\* requests.get returns a success status: fetch_links returns the portion of the
\* same-host links.
FetchLinksOk ==
    /\ UNCHANGED startRest
    /\ prog = "start" /\ spc = "fetch"
    /\ fetched' = [status |-> "ok",
                   links |-> Portion(AllLinks(links[start_in.url], start_in.url),
                                     Clamp(start_in.percentage))]
    /\ spc' = "write"
    /\ UNCHANGED urls_txt

\* requests.get or raise_for_status raises: the except clause returns [].
FetchLinksRaises ==
    /\ UNCHANGED startRest
    /\ prog = "start" /\ spc = "fetch"
    /\ fetched' = [status |-> "raise", links |-> << >>]
    /\ spc' = "write"
    /\ UNCHANGED urls_txt

\* main writes the links returned to urls.txt.
WriteUrlFile ==
    /\ UNCHANGED startRest
    /\ prog = "start" /\ spc = "write"
    /\ urls_txt' = Written(urls_txt, fetched.links)
    /\ spc' = "done"
    /\ UNCHANGED fetched

StartNext == FetchLinksOk \/ FetchLinksRaises \/ WriteUrlFile

\* Nothing has been recorded when a run starts.
HistInit ==
    /\ min_gap = [h \in Hosts |-> Far]
    /\ add_count = [u \in URLs |-> 0]
    /\ get_count = [u \in URLs |-> 0]
    /\ bad_harvest = {}
    /\ robots_reads = [h \in Hosts |-> 0]
    /\ robots_log = {}
    /\ dispatched = {}
    /\ outcomes = {}
    /\ refetched = {}

\* The start of a run of program p over the seed file s with settings from S.
InitFrom(p, s, S) ==
    /\ prog = p
    /\ settings \in S
    /\ seeds = s
    /\ links \in Graphs
    /\ disallowed \in (IF prog = "app" THEN {{}, {"c"}} ELSE {{}})
    /\ IF prog = "app" THEN AppInit /\ TestOff ELSE TestInit /\ AppOff
    /\ StartOff
    /\ HistInit

\* The start of a run of program p over the seed file s with legal settings.
InitWith(p, s) == InitFrom(p, s, SettingsOf(p))

Init == \E p \in {"app", "test"}, s \in SeedLists : InitWith(p, s)

Next == AppNext \/ TestNext

Spec == Init /\ [][Next]_vars

\* A run of test.py in which the pool's threads keep running and every request
\* returns or raises (requests.get carries settings['timeout']).
InitTest == Init /\ prog = "test"
FairTest == InitTest /\ [][TestNext]_vars /\ WF_vars(TestNext)

\* A run of app.py that the user may interrupt.
InitApp == Init /\ prog = "app"
InterruptNext == AppNext \/ Interrupt
SpecInterrupt == InitApp /\ [][InterruptNext]_vars

\* A run of app.py with one connection over a seed file of eleven lines.
ManySeeds == <<"a", "a", "a", "a", "a", "a", "a", "a", "a", "a", "c">>
InitCheckpoint == InitWith("app", ManySeeds) /\ settings.connections = 1
SpecCheckpoint == InitCheckpoint /\ [][AppNext]_vars

\* Runs of app.py over a seed file of two URLs, each run after the first resuming
\* from the state the last one saved.
InitResume == \E s \in {<<"a", "b">>, <<"a", "c">>} : InitWith("app", s)
ResumeNext == AppNext \/ Resume
SpecResume == InitResume /\ [][ResumeNext]_vars

\* ------------------------------------------------------- reading the seed file
\* Lines as main gets them from the file, each a sequence of characters: blank,
\* a URL (with whitespace around it), a comment, a URL followed by '#'.
RawLines ==
    { << >>, <<" ">>, <<"a">>, <<" ", "b", " ">>, <<"#", "a">>, <<" ", "#">>,
      <<"a", "#">> }
RawFiles == UNION { [1..n -> RawLines] : n \in 0..MaxLines }

\* str.strip(): the text without its leading and trailing whitespace.
RECURSIVE StripLeft(_)
StripLeft(t) == IF t # << >> /\ Head(t) = " " THEN StripLeft(Tail(t)) ELSE t
RECURSIVE StripRight(_)
StripRight(t) ==
    IF t # << >> /\ t[Len(t)] = " " THEN StripRight(SubSeq(t, 1, Len(t) - 1)) ELSE t
Strip(t) == StripRight(StripLeft(t))

\* app.py: `for url in urls: url = url.strip(); if url and not
\* url.startswith("#"): crawl_state["queue"].append((url, 0))`
RECURSIVE AppSeedTasks(_)
AppSeedTasks(urls) ==
    IF urls = << >> THEN << >>
    ELSE LET url == Strip(Head(urls)) IN
         (IF url # << >> /\ Head(url) # "#" THEN << <<url, 0>> >> ELSE << >>)
            \o AppSeedTasks(Tail(urls))

\* test.py: settings['urls_to_visit'] = [line.strip() for line in f], then
\* urls_to_visit = [(url, 0) for url in settings['urls_to_visit']]
TestSeedTasks(f) == [i \in DOMAIN f |-> <<Strip(f[i]), 0>>]

\* app.py's main reads the seed file and sets up the queue and the handles.
ReadUrls ==
    /\ UNCHANGED appRest
    /\ prog = "app" /\ pc = "off"
    /\ queue' = AppSeedTasks(seeds)
    /\ num_conn' = NumConn(settings.connections, AppSeedTasks(seeds))
    /\ handles' = [i \in 0..(NumConn(settings.connections, AppSeedTasks(seeds)) - 1)
                     |-> FreeHandle]
    /\ pc' = "seeded"
    /\ UNCHANGED <<processed_urls, active_handles, msgs, state_file, elapsed,
                   appHist, hist>>

\* test.py's main reads the seed file and crawl_and_update sets up its lists.
ReadUrlFile ==
    /\ UNCHANGED testRest
    /\ prog = "test" /\ tpc = "off"
    /\ urls_to_visit' = TestSeedTasks(seeds)
    /\ created' = BagOfSeq(TestSeedTasks(seeds))
    /\ tpc' = "seeded"
    /\ UNCHANGED <<visited, new_urls_to_visit, futures, nodes, get_count, submitted,
                   hist>>

\* Either program before it has read a seed file with blank and comment lines.
InitSeeds ==
    /\ prog \in {"app", "test"}
    /\ settings \in SettingsOf(prog)
    /\ seeds \in RawFiles
    /\ links \in Graphs
    /\ disallowed = {}
    /\ AppOff /\ TestOff /\ StartOff
    /\ HistInit

SeedsNext == ReadUrls \/ ReadUrlFile
SpecSeeds == InitSeeds /\ [][SeedsNext]_vars

\* A run of start.py: --url names a page of the site, --percentage is any number,
\* and urls.txt holds what an earlier run left. start.py reads no settings.
Percentages == {-50, 0, 50, 100, 150}
InitStart ==
    /\ prog = "start"
    /\ settings = CHOOSE x \in SettingsOf("app") : TRUE
    /\ seeds = << >>
    /\ links \in Graphs
    /\ disallowed = {}
    /\ AppOff /\ TestOff
    /\ HistInit
    /\ spc = "fetch"
    /\ start_in \in [url : URLs, percentage : Percentages, file : SeedLists]
    /\ fetched = [status |-> "none", links |-> << >>]
    /\ urls_txt = start_in.file
SpecStart == InitStart /\ [][StartNext]_vars

\* A run of test.py whose settings['connections'], typed in the menu or loaded
\* from settings.json, is below 1.
LowConnections ==
    { [x EXCEPT !.connections = c] : x \in SettingsOf("test"), c \in {-1, 0} }
InitLowConn == \E s \in SeedLists : InitFrom("test", s, LowConnections)
SpecLowConn == InitLowConn /\ [][TestNext]_vars

\* ================================================================ claims

\* The handles attached to the multi stack, and the calls not yet returned.
Attached == {i \in DOMAIN handles : handles[i].st # "free"}
Unfinished == {i \in DOMAIN futures : futures[i].st # "done"}

\* The entries of graph_data['nodes'] for a URL.
NodesOf(u) == {i \in DOMAIN nodes : nodes[i][1] = u}

\* C1: in test.py with threads >= 2 and connections >= 2, each URL is fetched
\* (requests.get issued, a node appended) at most once per run.
C1_FetchedAtMostOnce ==
    (prog = "test" /\ settings.threads >= 2 /\ settings.connections >= 2)
        => \A u \in URLs : get_count[u] <= 1 /\ Cardinality(NodesOf(u)) <= 1

\* C2: in app.py no URL is attached to a curl handle more than once in a run.
C2_AttachedAtMostOnce ==
    prog = "app" => \A u \in URLs : add_count[u] <= 1

\* C3: a URL whose fetch failed is in processed_urls (app.py, once info_read has
\* been handled) or in visited (test.py, once the batch has returned), and is
\* never fetched again.
C3_FailedIsVisited ==
    /\ (prog = "app" /\ pc = "loop") => Failed \subseteq processed_urls
    /\ (prog = "test" /\ tpc = "loop") => Failed \subseteq visited
    /\ refetched = {}

\* Every task the run holds or has dispatched.
AllTasks ==
    dispatched \cup Range(queue) \cup Range(urls_to_visit) \cup Range(new_urls_to_visit)

\* C4: every task dispatched has depth <= settings['depth'], and no task of
\* depth settings['depth'] enqueues links (a link so enqueued would be a task
\* of depth settings['depth'] + 1 in the queue).
C4_DepthBound == \A t \in AllTasks : t[2] <= settings.depth

\* A task at the depth limit, whose page has links, was fetched and handled.
C4_Witness ==
    /\ prog = "app" /\ pc = "loop" /\ settings.search_links
    /\ \E t \in dispatched :
         /\ t[2] = settings.depth
         /\ links[t[1]] # << >>
         /\ <<t[1], "ok">> \in outcomes
         /\ t[1] \in processed_urls

\* C5: main leaves the crawl loop and saves the state only when the queue is
\* empty and no fetch is in flight.
C5_ExitOnlyWhenIdle ==
    (prog = "app" /\ pc \in {"save", "report", "done"})
        => queue = << >> /\ active_handles = 0 /\ Attached = {}

\* C6: in test.py no task is submitted that was not created, none is submitted
\* twice, and when crawl_and_update returns every task created has been
\* submitted once.
C6_SubmittedExactlyOnce ==
    prog = "test" =>
        /\ submitted \sqsubseteq created
        /\ tpc = "done" => submitted = created

\* The run returned after workers appended tasks that took more than one batch.
C6_Witness ==
    /\ prog = "test" /\ tpc = "done"
    /\ \E t \in DOMAIN created : t[2] >= 1 /\ created[t] >= 2
    /\ BagCardinality(created) > settings.connections + 1

\* C7: the fetches in flight never exceed settings['connections'].
C7_InFlightBound ==
    /\ prog = "app" => Cardinality(Attached) <= settings.connections
    /\ prog = "test" => Cardinality(Unfinished) <= settings.connections

\* Every slot is taken while more tasks wait in the queue.
C7_Witness ==
    /\ prog = "app"
    /\ Cardinality(Attached) = settings.connections
    /\ queue # << >>
    /\ \E i \in Attached : handles[i].st = "running"

\* C8: seed a, depth 1, search_links on, a links to b and c, every fetch
\* succeeds: at the end processed_urls = {a, b, c}, b and c were dispatched at
\* depth 1 and nothing deeper was enqueued.
C8_Scenario ==
    ( /\ prog = "app" /\ pc = "done"
      /\ seeds = <<"a">> /\ settings.depth = 1 /\ settings.search_links
      /\ links["a"] = <<"b", "c">>
      /\ disallowed = {}
      /\ \A o \in outcomes : o[2] = "ok" )
        => /\ processed_urls = {"a", "b", "c"}
           /\ {<<"b", 1>>, <<"c", 1>>} \subseteq dispatched
           /\ \A t \in AllTasks : t[2] <= 1

\* C9: in app.py a response with a non-success status has no links extracted
\* and enqueues no task.
C9_ErrorStatusIsFailure == prog = "app" => bad_harvest = {}

\* C10: in app.py two consecutive requests to a host start at least the host's
\* crawl-delay (or the default) apart.
C10_PolitenessSpacing ==
    prog = "app" => \A h \in Hosts : min_gap[h] >= HostDelay(h)

\* C12: with a finite link graph, finite depth, connections >= 1, threads >= 1
\* and every fetch returning or raising, crawl_and_update returns.
C12_Terminates == <>(tpc = "done")

\* crawl_and_update returned after several pages were fetched and one failed.
C12_Witness ==
    /\ prog = "test" /\ tpc = "done"
    /\ Len(nodes) >= 2
    /\ Failed # {}

\* The steps of the scheduling loop of crawl_and_update.
SchedulerStep == Schedule \/ Wait \/ Return

\* C15: in test.py only the scheduling loop writes visited and the pending
\* lists; no worker running crawl_url does.
C15_OnlySchedulerWrites ==
    [][(visited' # visited \/ new_urls_to_visit' # new_urls_to_visit) => SchedulerStep]_vars

\* The tasks of urls_to_visit not handed to the executor yet.
Pending ==
    IF tpc = "wait" THEN Rest(urls_to_visit, settings.connections) ELSE urls_to_visit

\* C16: no URL pending in the frontier is in the visited set.
C16_FrontierNotVisited ==
    /\ prog = "app" => \A t \in Range(queue) : t[1] \notin processed_urls
    /\ prog = "test" =>
         \A t \in Range(Pending) \cup Range(new_urls_to_visit) : t[1] \notin visited

\* The depth of the first task enqueued for a URL: test.py enqueues level by
\* level, so it is the least depth among the tasks created for the URL.
FirstDepth(u) ==
    LET ds == {t[2] : t \in {x \in DOMAIN created : x[1] = u}} IN
    CHOOSE d \in ds : \A e \in ds : d <= e

\* C19: in test.py every node carries the depth of the first task enqueued for
\* its URL.
C19_FirstDepthWins ==
    prog = "test" => \A i \in DOMAIN nodes : nodes[i][2] = FirstDepth(nodes[i][1])

\* C20: in test.py a page fetched successfully whose link extraction raised is
\* in visited once its call has returned.
C20_ExtractionErrorIsSuccess ==
    (prog = "test" /\ tpc = "loop")
        => \A o \in outcomes : o[2] = "bad_html" => o[1] \in visited

\* C17: in app.py robots.txt of a host is read at most once per run.
C17_RobotsReadOnce == prog = "app" => \A h \in Hosts : robots_reads[h] <= 1

\* C18: in app.py a call of respect_robots_txt whose read of robots.txt raised
\* returned True after the default wait: the pass went on to the curl handle
\* and was not skipped.
C18_RobotsFailOpen ==
    prog = "app" =>
        \A r \in robots_log : r.read = "error" => r.allowed /\ r.slept = DefaultDelay

\* The read of robots.txt raised for a URL that was then attached, and the crawl
\* went on to handle its fetch.
C18_Witness ==
    /\ prog = "app" /\ pc = "loop"
    /\ \E r \in robots_log :
         /\ r.read = "error"
         /\ \E t \in dispatched : t[1] = r.url
         /\ r.url \in processed_urls

\* C14: in app.py a run ended by a user interrupt has written its state file and
\* has left no transfer unfinished on the multi stack.
C14_InterruptCheckpoints ==
    (prog = "app" /\ pc = "interrupted") => (state_file # {} /\ Attached = {})

\* The fetches whose outcome main has taken from m.info_read().
Handled == add_count["a"] + add_count["b"] + add_count["c"] - Cardinality(Attached)

\* C13: in app.py the state file has been written once ten fetch outcomes have
\* completed, while the crawl loop is still running.
C13_CheckpointEveryTen == (prog = "app" /\ Handled >= 10) => state_file # {}

C23_SavedBeforeReport ==
    (prog = "app" /\ pc \in {"report", "done"})
        => state_file = {[processed_urls |-> processed_urls, queue |-> queue]}

\* The reports were made after a crawl that processed a URL.
C23_Witness == prog = "app" /\ pc = "done" /\ processed_urls # {}

\* C24: with settings['search_links'] off, every task dispatched, and every task
\* waiting in a queue, is a depth-0 task of a seed URL, in both programs.
C24_NoLinksWhenOff ==
    ~settings.search_links =>
        /\ \A t \in dispatched : t[1] \in Range(seeds) /\ t[2] = 0
        /\ \A t \in Range(queue) \cup Range(urls_to_visit) : t[1] \in Range(seeds) /\ t[2] = 0
        /\ new_urls_to_visit = << >>

\* With link search off, test.py and app.py have each fetched a page that holds
\* links, below the depth limit, and handled the response.
C24_Witness ==
    /\ ~settings.search_links
    /\ \/ prog = "test" /\ tpc = "done"
          /\ \E i \in DOMAIN nodes : links[nodes[i][1]] # << >> /\ nodes[i][2] < settings.depth
       \/ prog = "app" /\ pc = "done"
          /\ \E u \in processed_urls : links[u] # << >>

\* C25: in app.py the dispatch loop never hands a task to a handle that is still
\* attached: main never ends in the error add_handle raises for such a handle.
C25_AssignedHandleFree == prog = "app" => pc # "crashed"

\* C28: in app.py num_conn is the minimum of settings['connections'] and the
\* number of seed tasks, the fetches in flight never exceed the number of seed
\* tasks, and nothing is dispatched when the seed file gives no task.
C28_LimitFixedAtStart ==
    prog = "app" =>
        /\ num_conn = Min(settings.connections, Len(seeds))
        /\ Cardinality(Attached) <= Len(seeds)
        /\ seeds = << >> => dispatched = {}

\* One seed and two connections: a single fetch is in flight while the task of
\* a discovered link waits in the queue.
C28_Witness ==
    /\ prog = "app" /\ pc = "transfer"
    /\ Len(seeds) = 1 /\ settings.connections > 1
    /\ queue # << >> /\ Cardinality(Attached) = 1

\* C26: in test.py, once a task of some depth has been submitted, every task
\* created with a smaller depth has been submitted as often as it was created,
\* and no call of a smaller depth is still unfinished.
C26_LevelByLevel ==
    prog = "test" =>
        \A t \in BagToSet(submitted) :
            /\ \A e \in BagToSet(created) :
                  e[2] < t[2] => CopiesIn(e, submitted) = CopiesIn(e, created)
            /\ \A i \in Unfinished : futures[i].depth >= t[2]

\* Tasks of three levels were submitted, the middle level holding two tasks, with
\* batches of one task.
C26_Witness ==
    /\ prog = "test" /\ tpc = "done" /\ settings.connections = 1
    /\ \E t \in BagToSet(submitted) : t[2] = 2
    /\ BagCardinality([e \in {x \in BagToSet(submitted) : x[2] = 1} |-> submitted[e]]) >= 2

\* C27: in app.py every state file written holds an empty queue, main reaches
\* the reports with an empty crawl_state['queue'] (the edge list of
\* create_network_graph), and a resumed run starts from the queue of the seed
\* file.
C27_SavedQueueEmpty ==
    [][ /\ \A saved \in state_file' : saved.queue = << >>
        /\ pc' = "report" => queue' = << >>
        /\ Resume => queue' = SeedQueue(seeds) ]_vars

\* A resumed run is dispatching the tasks of the seed file again.
C27_Witness ==
    /\ prog = "app" /\ pc = "dispatch"
    /\ state_file # {} /\ queue = SeedQueue(seeds)

\* C22: in test.py a run with settings['connections'] below 1 never gets to
\* scheduling: crawl_and_update submits no task and waits for no batch.
C22_LowConnectionsRejected ==
    (prog = "test" /\ settings.connections < 1) => (tpc # "wait" /\ dispatched = {})

\* The tasks of the lines whose stripped text is non-empty and does not start
\* with '#', in file order.
SeedLines(f) ==
    SelectSeq([i \in DOMAIN f |-> Strip(f[i])], LAMBDA t : t # << >> /\ Head(t) # "#")
WantedTasks(f) == [i \in DOMAIN SeedLines(f) |-> <<SeedLines(f)[i], 0>>]

\* C21: the frontier either program builds from the seed file holds one depth-0
\* task per line that is neither blank nor a comment, in file order, and nothing
\* else.
C21_SeedFrontier ==
    /\ (prog = "app" /\ pc = "seeded") => queue = WantedTasks(seeds)
    /\ (prog = "test" /\ tpc = "seeded") => urls_to_visit = WantedTasks(seeds)

\* p is the first Len(p) entries of s.
IsPrefix(p, s) == Len(p) <= Len(s) /\ p = SubSeq(s, 1, Len(p))

\* C29: when start.py's main has ended, urls.txt is empty if the fetch raised,
\* whatever it held before; if the fetch succeeded it holds links of the host of
\* the input URL only, a prefix of the page's same-host links in document order.
C29_UrlFileRewritten ==
    (prog = "start" /\ spc = "done") =>
        /\ fetched.status = "raise" => urls_txt = << >>
        /\ fetched.status = "ok" =>
              /\ \A i \in DOMAIN urls_txt : Host(urls_txt[i]) = Host(start_in.url)
              /\ IsPrefix(urls_txt,
                          SelectSeq(links[start_in.url],
                                    LAMBDA l : Host(l) = Host(start_in.url)))

\* The fetch raised in a run that found lines in urls.txt, and the file is
\* empty now.
C29_Witness ==
    /\ prog = "start" /\ spc = "done"
    /\ fetched.status = "raise" /\ start_in.file # << >> /\ urls_txt = << >>

====
